---- MODULE Spec2Model ----
(***************************************************************************)
(* Model of the chat panel of YewChat/src/components/chat.rs: the Chat     *)
(* component (create / update / view), the wire types it exchanges with    *)
(* the websocket service, and the JSON text form of those types as         *)
(* serde_json writes and reads it.                                         *)
(*                                                                         *)
(* A text (user name, message body, wire frame) is what a Rust String is:  *)
(* a sequence of chars, each char the number of a Unicode scalar value.    *)
(* Str("..") writes such a text from its letters.                          *)
(***************************************************************************)
EXTENDS Integers, Sequences, FiniteSets, TLC

(***************************************************************************)
(* Option<T>                                                               *)
(***************************************************************************)
None == [t |-> "none"]

Some(x) == [t |-> "some", v |-> x]

IsSome(o) == o.t = "some"

(***************************************************************************)
(* Texts and their chars                                                   *)
(***************************************************************************)
\* The letters U+0020..U+007E in the order of their numbers.
Printable ==
    " !\"#$%&'()*+,-./0123456789:;<=>?"
    \o "@ABCDEFGHIJKLMNOPQRSTUVWXYZ[\\]^_"
    \o SubSeq("`'", 1, 1) \o "abcdefghijklmnopqrstuvwxyz{|}~"

\* The number of each letter that can be written in Str.
CodeOf ==
    [c \in {SubSeq(Printable, k, k) : k \in 1..Len(Printable)}
           \cup {"\t", "\n", "\f", "\r"} |->
        CASE c = "\t" -> 9
          [] c = "\n" -> 10
          [] c = "\f" -> 12
          [] c = "\r" -> 13
          [] OTHER -> 31 + (CHOOSE k \in 1..Len(Printable) : SubSeq(Printable, k, k) = c)]

\* The char written as the one letter t.
C(t) == CodeOf[t]

\* The text written as t.
Str(t) == [i \in 1..Len(t) |-> CodeOf[SubSeq(t, i, i)]]

\* The char at position i of a text, -1 past its end.
Ch(s, i) == IF i >= 1 /\ i <= Len(s) THEN s[i] ELSE -1

Slice(s, i, j) == IF i >= 1 /\ j <= Len(s) /\ i <= j THEN SubSeq(s, i, j) ELSE <<>>

\* 0 .. 9
Digits == C("0")..C("9")

Whitespace == {C(" "), C("\n"), C("\t"), C("\r")}

\* U+0000..U+001F
ControlChars == 0..31

\* The value of a hexadecimal digit, -1 for any other char.
HexVal(c) ==
    IF c \in C("0")..C("9") THEN c - C("0")
    ELSE IF c \in C("a")..C("f") THEN c - C("a") + 10
    ELSE IF c \in C("A")..C("F") THEN c - C("A") + 10
    ELSE -1

\* The lower-case hexadecimal digit of a value 0..15.
HexDigit(n) == IF n < 10 THEN C("0") + n ELSE C("a") + (n - 10)

(***************************************************************************)
(* serde_json: reading the strings of a JSON text.                         *)
(* A reader returns Fail, or Done(v, i) with v what was read and i the     *)
(* position after it.                                                      *)
(***************************************************************************)
Fail == [ok |-> FALSE]

Done(v, i) == [ok |-> TRUE, v |-> v, i |-> i]

NullText == Str("null")

TrueText == Str("true")

FalseText == Str("false")

RECURSIVE SkipWs(_, _)
SkipWs(s, i) == IF Ch(s, i) \in Whitespace THEN SkipWs(s, i + 1) ELSE i

RECURSIVE SkipDigits(_, _)
SkipDigits(s, i) == IF Ch(s, i) \in Digits THEN SkipDigits(s, i + 1) ELSE i

\* The char a one-letter escape \e stands for, -1 when \e is none of them.
Unescape(e) ==
    CASE e = C("\"") -> C("\"")
      [] e = C("\\") -> C("\\")
      [] e = C("/")  -> C("/")
      [] e = C("b")  -> 8
      [] e = C("f")  -> C("\f")
      [] e = C("n")  -> C("\n")
      [] e = C("t")  -> C("\t")
      [] e = C("r")  -> C("\r")
      [] OTHER       -> -1

\* The number four hexadecimal digits of values a, b, c, d write, -1 when one of them
\* is no digit.
Hex4(a, b, c, d) ==
    IF a = -1 \/ b = -1 \/ c = -1 \/ d = -1 THEN -1
    ELSE a * 4096 + b * 256 + c * 16 + d

\* The number the four hexadecimal digits from position i write, -1 when one of the
\* four chars is no hexadecimal digit.
DecodeHexEscape(s, i) ==
    Hex4(HexVal(Ch(s, i)), HexVal(Ch(s, i + 1)), HexVal(Ch(s, i + 2)),
         HexVal(Ch(s, i + 3)))

\* The char two numbers n1, n2 of escapes \uXXXX name, the first starting at
\* position i, and the position after it.  The first half of a surrogate pair must
\* be followed by an escape \uXXXX for the second half, and the two name one char;
\* a half on its own is refused.
SurrogateOrChar(s, i, n1, n2) ==
    IF n1 = -1 THEN Fail
    ELSE IF n1 \in 56320..57343 THEN Fail
    ELSE IF n1 \in 55296..56319 THEN
        IF Ch(s, i + 4) = C("\\") /\ Ch(s, i + 5) = C("u") /\ n2 \in 56320..57343
        THEN Done(65536 + (n1 - 55296) * 1024 + (n2 - 56320), i + 10)
        ELSE Fail
    ELSE Done(n1, i + 4)

\* The escape \uXXXX whose digits start at position i.
UnicodeEscape(s, i) ==
    SurrogateOrChar(s, i, DecodeHexEscape(s, i), DecodeHexEscape(s, i + 6))

\* The chars that end a run of plain chars in a string: the quote, the backslash and
\* the control characters.
ESCAPE == ControlChars \cup {C("\""), C("\\")}

\* The first position from i on that holds a char of ESCAPE, the position after the
\* text when there is none.
RunEnd(s, i) ==
    LET stops == {j \in i..Len(s) : s[j] \in ESCAPE} IN
    IF stops = {} THEN Len(s) + 1 ELSE CHOOSE j \in stops : \A k \in stops : j <= k

RECURSIVE ScanString(_, _, _)

\* The string goes on after an escape that stood for the char r.v and ended before
\* position r.i.
AfterEscape(s, acc, r) ==
    IF r.ok THEN ScanString(s, r.i, Append(acc, r.v)) ELSE Fail

\* A one-letter escape at position i: the char and the position after it.
LetterEscape(u, i) == IF u = -1 THEN Fail ELSE Done(u, i + 1)

\* The escape whose letter is at position i: its char and the position after it.
ParseEscape(s, i) ==
    IF Ch(s, i) = C("u") THEN UnicodeEscape(s, i + 1)
    ELSE LetterEscape(Unescape(Ch(s, i)), i)

\* The plain chars from position i end before position k, and acc was read before
\* them: a quote ends the string, a backslash starts an escape, and a control
\* character or the end of the text is refused.
AfterRun(s, acc, k) ==
    CASE Ch(s, k) = C("\"") -> Done(acc, k + 1)
      [] Ch(s, k) = C("\\") -> AfterEscape(s, acc, ParseEscape(s, k + 1))
      [] OTHER -> Fail

\* The rest of a string literal, from position i (after the opening quote); the
\* plain chars up to the next quote or backslash are taken as they are.
ScanString(s, i, acc) ==
    AfterRun(s, acc \o Slice(s, i, RunEnd(s, i) - 1), RunEnd(s, i))

\* One value and nothing but whitespace after it: Deserializer::end.
EndOfText(s, r) ==
    IF r.ok /\ SkipWs(s, r.i) = Len(s) + 1 THEN [ok |-> TRUE, v |-> r.v] ELSE Fail

\* Deserializer::parse_ident for the literal lit at position j.
IsLiteral(s, j, lit) == Slice(s, j, j + Len(lit) - 1) = lit

(***************************************************************************)
(* serde_json: skipping the value of a key the struct has no field for     *)
(* (Deserializer::ignore_value).  These return the position after what     *)
(* they skipped, -1 when the text is refused.  A skipped value must be     *)
(* well-formed JSON, but its strings are not decoded: an escape \uXXXX     *)
(* needs four hexadecimal digits and may name a surrogate half.            *)
(***************************************************************************)
\* ignore_escape, at the char after the backslash.
ignore_escape(s, i) ==
    IF Ch(s, i) = C("u")
    THEN (IF DecodeHexEscape(s, i + 1) = -1 THEN -1 ELSE i + 5)
    ELSE IF Unescape(Ch(s, i)) = -1 THEN -1 ELSE i + 1

RECURSIVE ignore_str(_, _)

\* The string goes on at position i after an escape, unless the escape was refused.
AfterIgnoredEscape(s, i) == IF i = -1 THEN -1 ELSE ignore_str(s, i)

\* Read::ignore_str: the rest of a string literal, from position i.
ignore_str(s, i) ==
    LET k == RunEnd(s, i) IN
    IF Ch(s, k) = C("\"") THEN k + 1
    ELSE IF Ch(s, k) = C("\\") THEN AfterIgnoredEscape(s, ignore_escape(s, k + 1))
    ELSE -1

\* ignore_exponent, at the char after e or E: [+-]? [0-9]+
ignore_exponent(s, i) ==
    LET k == IF Ch(s, i) \in {C("+"), C("-")} THEN i + 1 ELSE i IN
    IF Ch(s, k) \in Digits THEN SkipDigits(s, k) ELSE -1

\* What may follow the digits of a fraction, at position i: an exponent.
AfterDecimal(s, i) ==
    IF Ch(s, i) \in {C("e"), C("E")} THEN ignore_exponent(s, i + 1) ELSE i

\* ignore_decimal, at the char after the point: [0-9]+ and an exponent.
ignore_decimal(s, i) ==
    IF Ch(s, i) \in Digits THEN AfterDecimal(s, SkipDigits(s, i)) ELSE -1

\* What may follow the integer part, at position i: a fraction or an exponent.
AfterInteger(s, i) ==
    IF Ch(s, i) = C(".") THEN ignore_decimal(s, i + 1)
    ELSE IF Ch(s, i) \in {C("e"), C("E")} THEN ignore_exponent(s, i + 1)
    ELSE i

\* ignore_integer, at the first digit: 0 on its own or [1-9][0-9]*, then the rest.
ignore_integer(s, i) ==
    IF Ch(s, i) = C("0")
    THEN (IF Ch(s, i + 1) \in Digits THEN -1 ELSE AfterInteger(s, i + 1))
    ELSE IF Ch(s, i) \in Digits THEN AfterInteger(s, SkipDigits(s, i))
    ELSE -1

RECURSIVE ignore_value(_, _), IgnoreElems(_, _), IgnoreMembers(_, _)

\* After an element that ended before position i: a comma and more, or the bracket.
AfterIgnoredElem(s, i) ==
    IF i = -1 THEN -1
    ELSE CASE Ch(s, SkipWs(s, i)) = C(",") -> IgnoreElems(s, SkipWs(s, i) + 1)
           [] Ch(s, SkipWs(s, i)) = C("]") -> SkipWs(s, i) + 1
           [] OTHER -> -1

\* value (, value)* ]
IgnoreElems(s, i) == AfterIgnoredElem(s, ignore_value(s, i))

\* After a member that ended before position i: a comma and more, or the brace.
AfterIgnoredMember(s, i) ==
    IF i = -1 THEN -1
    ELSE CASE Ch(s, SkipWs(s, i)) = C(",") -> IgnoreMembers(s, SkipWs(s, i) + 1)
           [] Ch(s, SkipWs(s, i)) = C("}") -> SkipWs(s, i) + 1
           [] OTHER -> -1

\* After a key that ended before position i: the colon and the value.
IgnoredMemberValue(s, i) ==
    IF i = -1 THEN -1
    ELSE IF Ch(s, SkipWs(s, i)) = C(":")
         THEN AfterIgnoredMember(s, ignore_value(s, SkipWs(s, i) + 1))
         ELSE -1

\* "key" : value (, "key" : value)* }   The keys are skipped as strings are.
IgnoreMembers(s, i) ==
    IF Ch(s, SkipWs(s, i)) = C("\"")
    THEN IgnoredMemberValue(s, ignore_str(s, SkipWs(s, i) + 1))
    ELSE -1

\* The value at position j, which is no whitespace.
IgnoreAt(s, j, c) ==
    CASE c = C("n") -> IF IsLiteral(s, j, NullText) THEN j + 4 ELSE -1
      [] c = C("t") -> IF IsLiteral(s, j, TrueText) THEN j + 4 ELSE -1
      [] c = C("f") -> IF IsLiteral(s, j, FalseText) THEN j + 5 ELSE -1
      [] c = C("-") -> ignore_integer(s, j + 1)
      [] c \in Digits -> ignore_integer(s, j)
      [] c = C("\"") -> ignore_str(s, j + 1)
      [] c = C("[") -> IF Ch(s, SkipWs(s, j + 1)) = C("]")
                       THEN SkipWs(s, j + 1) + 1 ELSE IgnoreElems(s, j + 1)
      [] c = C("{") -> IF Ch(s, SkipWs(s, j + 1)) = C("}")
                       THEN SkipWs(s, j + 1) + 1 ELSE IgnoreMembers(s, j + 1)
      [] OTHER -> -1

\* Deserializer::ignore_value: one JSON value starting at or after position i.
ignore_value(s, i) == IgnoreAt(s, SkipWs(s, i), Ch(s, SkipWs(s, i)))

(***************************************************************************)
(* serde_json: writing a text                                              *)
(***************************************************************************)
\* What is written for one char of a string: an escape for the quote, the backslash
\* and the control characters, the char itself for any other.
EscapeChar(c) ==
    CASE c = C("\"") -> <<C("\\"), C("\"")>>
      [] c = C("\\") -> <<C("\\"), C("\\")>>
      [] c = C("\n") -> <<C("\\"), C("n")>>
      [] c = C("\t") -> <<C("\\"), C("t")>>
      [] c = C("\r") -> <<C("\\"), C("r")>>
      [] c = C("\f") -> <<C("\\"), C("f")>>
      [] c = 8       -> <<C("\\"), C("b")>>
      [] c \in ControlChars ->
           <<C("\\"), C("u"), C("0"), C("0"), HexDigit(c \div 16), HexDigit(c % 16)>>
      [] OTHER       -> <<c>>

RECURSIVE Escape(_, _)
Escape(s, i) == IF i > Len(s) THEN <<>> ELSE EscapeChar(s[i]) \o Escape(s, i + 1)

Quote(s) == <<C("\"")>> \o Escape(s, 1) \o <<C("\"")>>

RECURSIVE JoinQuoted(_, _)
JoinQuoted(ss, i) ==
    IF i > Len(ss) THEN <<>>
    ELSE (IF i > 1 THEN <<C(",")>> ELSE <<>>) \o Quote(ss[i]) \o JoinQuoted(ss, i + 1)

(***************************************************************************)
(* The wire types                                                          *)
(***************************************************************************)
MsgTypes == {"Users", "Register", "Message"}

UsersText == Str("users")

RegisterText == Str("register")

MessageText == Str("message")

\* #[serde(rename_all = "lowercase")]
VariantName(mt) ==
    CASE mt = "Users"    -> UsersText
      [] mt = "Register" -> RegisterText
      [] mt = "Message"  -> MessageText

WebSocketMessage(mt, da, d) == [message_type |-> mt, data_array |-> da, data |-> d]

MessageData(from, message) == [from |-> from, message |-> message]

UserProfile(name, avatar) == [name |-> name, avatar |-> avatar]

OpenMessageType == Str("{\"messageType\":")

CommaDataArray == Str(",\"dataArray\":")

CommaData == Str(",\"data\":")

\* serde_json::to_string(&WebSocketMessage): the fields in declaration order under
\* their camelCase names, a None written as null.
to_string(m) ==
    OpenMessageType \o Quote(VariantName(m.message_type))
    \o CommaDataArray
    \o (IF IsSome(m.data_array)
        THEN <<C("[")>> \o JoinQuoted(m.data_array.v, 1) \o <<C("]")>>
        ELSE NullText)
    \o CommaData
    \o (IF IsSome(m.data) THEN Quote(m.data.v) ELSE NullText)
    \o <<C("}")>>

(***************************************************************************)
(* serde_json::from_str into the wire types.  Ok(x) / Err.  The readers    *)
(* of a value return Fail or Done(value, position after it).               *)
(***************************************************************************)
Err == [ok |-> FALSE]

Ok(v) == [ok |-> TRUE, v |-> v]

\* The result r as that of an Option: visit_some.
SomeOf(r) == IF r.ok THEN Done(Some(r.v), r.i) ELSE Fail

\* Deserializer::deserialize_string: a string literal; any other value is an
\* invalid type.
deserialize_string(s, i) ==
    IF Ch(s, SkipWs(s, i)) = C("\"") THEN ScanString(s, SkipWs(s, i) + 1, <<>>) ELSE Fail

\* Deserializer::deserialize_option for Option<String>: null is None.
deserialize_option_string(s, i) ==
    IF Ch(s, SkipWs(s, i)) = C("n")
    THEN (IF IsLiteral(s, SkipWs(s, i), NullText) THEN Done(None, SkipWs(s, i) + 4)
          ELSE Fail)
    ELSE SomeOf(deserialize_string(s, i))

RECURSIVE VecElems(_, _, _)

\* After the element r of a Vec<String>: a comma and more, or the bracket.
AfterVecElem(s, acc, r) ==
    IF ~r.ok THEN Fail
    ELSE CASE Ch(s, SkipWs(s, r.i)) = C(",") ->
                  VecElems(s, SkipWs(s, r.i) + 1, Append(acc, r.v))
           [] Ch(s, SkipWs(s, r.i)) = C("]") ->
                  Done(Append(acc, r.v), SkipWs(s, r.i) + 1)
           [] OTHER -> Fail

\* "string" (, "string")* ]
VecElems(s, i, acc) == AfterVecElem(s, acc, deserialize_string(s, i))

\* Deserializer::deserialize_seq for Vec<String>: an array of strings.
deserialize_vec_string(s, i) ==
    IF Ch(s, SkipWs(s, i)) # C("[") THEN Fail
    ELSE IF Ch(s, SkipWs(s, SkipWs(s, i) + 1)) = C("]")
         THEN Done(<<>>, SkipWs(s, SkipWs(s, i) + 1) + 1)
         ELSE VecElems(s, SkipWs(s, i) + 1, <<>>)

\* Deserializer::deserialize_option for Option<Vec<String>>: null is None.
deserialize_option_vec_string(s, i) ==
    IF Ch(s, SkipWs(s, i)) = C("n")
    THEN (IF IsLiteral(s, SkipWs(s, i), NullText) THEN Done(None, SkipWs(s, i) + 4)
          ELSE Fail)
    ELSE SomeOf(deserialize_vec_string(s, i))

\* The variant of MsgTypes the string r names.
VariantOf(r) ==
    IF ~r.ok THEN Fail
    ELSE IF \E mt \in MsgTypes : VariantName(mt) = r.v
         THEN Done(CHOOSE mt \in MsgTypes : VariantName(mt) = r.v, r.i)
         ELSE Fail

\* After the variant r named as the key of an object: a colon, null, and the brace.
UnitVariant(s, r) ==
    IF ~r.ok THEN Fail
    ELSE LET c == SkipWs(s, r.i)
             n == SkipWs(s, c + 1)
             e == SkipWs(s, n + 4)
         IN  IF Ch(s, c) = C(":") /\ IsLiteral(s, n, NullText) /\ Ch(s, e) = C("}")
             THEN Done(r.v, e + 1)
             ELSE Fail

\* Deserializer::deserialize_enum for the unit variants of MsgTypes: "users", or
\* {"users": null}.
deserialize_MsgTypes(s, i) ==
    IF Ch(s, SkipWs(s, i)) = C("\"") THEN VariantOf(deserialize_string(s, i))
    ELSE IF Ch(s, SkipWs(s, i)) = C("{")
         THEN UnitVariant(s, VariantOf(deserialize_string(s, SkipWs(s, i) + 1)))
         ELSE Fail

(***************************************************************************)
(* #[derive(Deserialize)] #[serde(rename_all = "camelCase")]               *)
(* struct WebSocketMessage: from an object, where a key given twice is an  *)
(* error, a key the struct has no field for is skipped with its value,     *)
(* messageType must be given and an Option not given is None; or from an   *)
(* array of the three fields.                                              *)
(***************************************************************************)
MessageTypeKey == Str("messageType")

DataArrayKey == Str("dataArray")

DataKey == Str("data")

\* No field of a WebSocketMessage has been read.
NoFrameFields == [message_type |-> None, data_array |-> None, data |-> None]

\* Option::unwrap_or
unwrap_or(o, d) == IF IsSome(o) THEN o.v ELSE d

\* The closing brace before position i: the struct from the fields f that were read.
FrameEnd(f, i) ==
    IF IsSome(f.message_type)
    THEN Done(WebSocketMessage(f.message_type.v, unwrap_or(f.data_array, None),
                               unwrap_or(f.data, None)), i)
    ELSE Fail

RECURSIVE FrameFields(_, _, _)

\* After a field that ended before position i: a comma and more, or the brace.
AfterFrameField(s, i, f) ==
    CASE Ch(s, SkipWs(s, i)) = C(",") -> FrameFields(s, SkipWs(s, i) + 1, f)
      [] Ch(s, SkipWs(s, i)) = C("}") -> FrameEnd(f, SkipWs(s, i) + 1)
      [] OTHER -> Fail

\* The value r was read for the field name.
FrameFieldRead(s, f, name, r) ==
    IF ~r.ok THEN Fail
    ELSE AfterFrameField(s, r.i, [f EXCEPT ![name] = Some(r.v)])

\* The value of a key the struct has no field for was skipped up to position i.
FrameFieldSkipped(s, f, i) == IF i = -1 THEN Fail ELSE AfterFrameField(s, i, f)

\* The value of the key k, from position i (after the colon).
FrameFieldValue(s, f, k, i) ==
    CASE k = MessageTypeKey ->
             IF IsSome(f.message_type) THEN Fail
             ELSE FrameFieldRead(s, f, "message_type", deserialize_MsgTypes(s, i))
      [] k = DataArrayKey ->
             IF IsSome(f.data_array) THEN Fail
             ELSE FrameFieldRead(s, f, "data_array", deserialize_option_vec_string(s, i))
      [] k = DataKey ->
             IF IsSome(f.data) THEN Fail
             ELSE FrameFieldRead(s, f, "data", deserialize_option_string(s, i))
      [] OTHER -> FrameFieldSkipped(s, f, ignore_value(s, i))

\* After the key: the colon and the value.
FrameFieldOf(s, f, key) ==
    IF ~key.ok THEN Fail
    ELSE IF Ch(s, SkipWs(s, key.i)) # C(":") THEN Fail
    ELSE FrameFieldValue(s, f, key.v, SkipWs(s, key.i) + 1)

\* "key" : value (, "key" : value)* }   A key is read as a string is.
FrameFields(s, i, f) ==
    IF Ch(s, SkipWs(s, i)) # C("\"") THEN Fail
    ELSE FrameFieldOf(s, f, ScanString(s, SkipWs(s, i) + 1, <<>>))

\* The third element of the array form, and the bracket.
FrameSeqEnd(s, mt, da, r) ==
    IF ~r.ok THEN Fail
    ELSE IF Ch(s, SkipWs(s, r.i)) # C("]") THEN Fail
    ELSE Done(WebSocketMessage(mt, da, r.v), SkipWs(s, r.i) + 1)

\* After the second element r of the array form: a comma and the third.
FrameSeqThird(s, mt, r) ==
    IF ~r.ok THEN Fail
    ELSE IF Ch(s, SkipWs(s, r.i)) # C(",") THEN Fail
    ELSE FrameSeqEnd(s, mt, r.v, deserialize_option_string(s, SkipWs(s, r.i) + 1))

\* After the first element r of the array form: a comma and the second.
FrameSeqSecond(s, r) ==
    IF ~r.ok THEN Fail
    ELSE IF Ch(s, SkipWs(s, r.i)) # C(",") THEN Fail
    ELSE FrameSeqThird(s, r.v, deserialize_option_vec_string(s, SkipWs(s, r.i) + 1))

\* Deserializer::deserialize_struct for WebSocketMessage, from position i.
deserialize_WebSocketMessage(s, i) ==
    LET j == SkipWs(s, i) IN
    IF Ch(s, j) = C("{")
    THEN (IF Ch(s, SkipWs(s, j + 1)) = C("}")
          THEN FrameEnd(NoFrameFields, SkipWs(s, j + 1) + 1)
          ELSE FrameFields(s, j + 1, NoFrameFields))
    ELSE IF Ch(s, j) = C("[")
    THEN FrameSeqSecond(s, deserialize_MsgTypes(s, j + 1))
    ELSE Fail

(***************************************************************************)
(* #[derive(Deserialize)] struct MessageData: both fields must be given,   *)
(* once; a key the struct has no field for is skipped with its value.      *)
(***************************************************************************)
FromKey == Str("from")

MessageKey == Str("message")

\* No field of a MessageData has been read.
NoEntryFields == [from |-> None, message |-> None]

\* The closing brace before position i: the struct from the fields f that were read.
EntryEnd(f, i) ==
    IF IsSome(f.from) /\ IsSome(f.message)
    THEN Done(MessageData(f.from.v, f.message.v), i)
    ELSE Fail

RECURSIVE EntryFields(_, _, _)

\* After a field that ended before position i: a comma and more, or the brace.
AfterEntryField(s, i, f) ==
    CASE Ch(s, SkipWs(s, i)) = C(",") -> EntryFields(s, SkipWs(s, i) + 1, f)
      [] Ch(s, SkipWs(s, i)) = C("}") -> EntryEnd(f, SkipWs(s, i) + 1)
      [] OTHER -> Fail

\* The value r was read for the field name.
EntryFieldRead(s, f, name, r) ==
    IF ~r.ok THEN Fail
    ELSE AfterEntryField(s, r.i, [f EXCEPT ![name] = Some(r.v)])

\* The value of a key the struct has no field for was skipped up to position i.
EntryFieldSkipped(s, f, i) == IF i = -1 THEN Fail ELSE AfterEntryField(s, i, f)

\* The value of the key k, from position i (after the colon).
EntryFieldValue(s, f, k, i) ==
    CASE k = FromKey ->
             IF IsSome(f.from) THEN Fail
             ELSE EntryFieldRead(s, f, "from", deserialize_string(s, i))
      [] k = MessageKey ->
             IF IsSome(f.message) THEN Fail
             ELSE EntryFieldRead(s, f, "message", deserialize_string(s, i))
      [] OTHER -> EntryFieldSkipped(s, f, ignore_value(s, i))

\* After the key: the colon and the value.
EntryFieldOf(s, f, key) ==
    IF ~key.ok THEN Fail
    ELSE IF Ch(s, SkipWs(s, key.i)) # C(":") THEN Fail
    ELSE EntryFieldValue(s, f, key.v, SkipWs(s, key.i) + 1)

\* "key" : value (, "key" : value)* }   A key is read as a string is.
EntryFields(s, i, f) ==
    IF Ch(s, SkipWs(s, i)) # C("\"") THEN Fail
    ELSE EntryFieldOf(s, f, ScanString(s, SkipWs(s, i) + 1, <<>>))

\* The second element of the array form, and the bracket.
EntrySeqEnd(s, from, r) ==
    IF ~r.ok THEN Fail
    ELSE IF Ch(s, SkipWs(s, r.i)) # C("]") THEN Fail
    ELSE Done(MessageData(from, r.v), SkipWs(s, r.i) + 1)

\* After the first element r of the array form: a comma and the second.
EntrySeqSecond(s, r) ==
    IF ~r.ok THEN Fail
    ELSE IF Ch(s, SkipWs(s, r.i)) # C(",") THEN Fail
    ELSE EntrySeqEnd(s, r.v, deserialize_string(s, SkipWs(s, r.i) + 1))

\* Deserializer::deserialize_struct for MessageData, from position i.
deserialize_MessageData(s, i) ==
    LET j == SkipWs(s, i) IN
    IF Ch(s, j) = C("{")
    THEN (IF Ch(s, SkipWs(s, j + 1)) = C("}")
          THEN EntryEnd(NoEntryFields, SkipWs(s, j + 1) + 1)
          ELSE EntryFields(s, j + 1, NoEntryFields))
    ELSE IF Ch(s, j) = C("[")
    THEN EntrySeqSecond(s, deserialize_string(s, j + 1))
    ELSE Fail

(***************************************************************************)
(* Bounds and inputs                                                       *)
(***************************************************************************)
\* Longest dataArray of an inbound users frame.
MaxNames == 2

\* Number of messages (Msg::HandleMsg, Msg::SubmitMessage) handled in a run.
MaxEvents == 3

Names == {Str("a"), Str("b")}

\* The name the hosting context gives to the panel.
Usernames == {Str("a")}

Bodies == {Str("hi"), Str("party.gif")}

\* What the user types into the input box: a text with letters the writer escapes.
Inputs == {Str("\"q\"")}

RECURSIVE SeqsUpTo(_, _)
SeqsUpTo(S, n) ==
    IF n = 0 THEN {<<>>}
    ELSE LET shorter == SeqsUpTo(S, n - 1) IN
         shorter \cup {Append(q, e) : q \in shorter, e \in S}

NameLists == SeqsUpTo(Names, MaxNames)

\* The payload the server puts into a message frame.
EntryText(from, body) ==
    Str("{\"from\":") \o Quote(from) \o Str(",\"message\":") \o Quote(body) \o <<C("}")>>

\* A payload with a key MessageData has no field for, its value a string with the
\* escape of a surrogate half.
EntryWithMore == Str("{\"from\":\"a\",\"message\":\"hi\",\"x\":\"\\ud800\"}")

\* Frames in the form serde_json writes them.
WrittenFrames ==
    {to_string(WebSocketMessage("Users", Some(ns), None)) : ns \in NameLists}
    \cup {to_string(WebSocketMessage("Message", None, Some(EntryText(n, b)))) :
              n \in Names, b \in Bodies}
    \cup {to_string(WebSocketMessage("Message", None, Some(EntryWithMore)))}
    \cup {to_string(WebSocketMessage("Register", None, Some(Str("a")))),
          to_string(WebSocketMessage("Users", None, None)),
          to_string(WebSocketMessage("Message", None, None)),
          to_string(WebSocketMessage("Message", None, Some(Str("hi"))))}

\* A users frame without dataArray and data, with a key WebSocketMessage has no field
\* for, its value a string with the escape of a surrogate half.
UsersWithMore == Str("{\"messageType\":\"users\",\"x\":\"\\ud800\"}")

\* Other texts: keys left out, keys the struct has no field for, and texts that are
\* no frame.
OtherTexts ==
    {Str("{\"x\":\"\\ud800\",\"messageType\":\"users\",\"dataArray\":[\"b\"]}"),
     Str("{\"dataArray\":[\"a\"]}"),
     UsersWithMore,
     Str("oops")}

\* The texts the event bus hands to the panel.
InboundTexts == WrittenFrames \cup OtherTexts

(***************************************************************************)
(* serde_json::from_str.  Reading a text is the same work every time, so   *)
(* the results for the texts of the model are kept in tables that are      *)
(* evaluated once; any other text is read on the spot.                     *)
(***************************************************************************)
\* The texts the panel itself writes.
OutboundTexts ==
    {to_string(WebSocketMessage("Register", None, Some(n))) : n \in Usernames}
    \cup {to_string(WebSocketMessage("Message", None, Some(v))) : v \in Inputs \cup {<<>>}}

KnownTexts == InboundTexts \cup OutboundTexts

\* A WebSocketMessage and nothing after it.
read_WebSocketMessage(s) == EndOfText(s, deserialize_WebSocketMessage(s, 1))

\* A MessageData and nothing after it.
read_MessageData(s) == EndOfText(s, deserialize_MessageData(s, 1))

\* The data of the message frames among the known texts.
KnownPayloads ==
    {EntryText(n, b) : n \in Names, b \in Bodies} \cup {EntryWithMore}
    \cup Inputs \cup {<<>>}

FrameTable == [s \in KnownTexts |-> read_WebSocketMessage(s)]

EntryTable == [s \in KnownPayloads |-> read_MessageData(s)]

\* serde_json::from_str::<WebSocketMessage>(s)
from_str_WebSocketMessage(s) ==
    IF s \in KnownTexts THEN FrameTable[s] ELSE read_WebSocketMessage(s)

\* serde_json::from_str::<MessageData>(s)
from_str_MessageData(s) ==
    IF s \in KnownPayloads THEN EntryTable[s] ELSE read_MessageData(s)

(***************************************************************************)
(* The Chat component                                                      *)
(***************************************************************************)
VARIABLES
    users,          \* Chat.users: Vec<UserProfile>
    messages,       \* Chat.messages: Vec<MessageData>
    chat_input,     \* value of the input element Chat.chat_input refers to
    tx,             \* texts wss.tx accepted, in order
    dom,            \* what the last view() produced, None before the first
    status,         \* "Ready", or where the component panicked
    should_render,  \* what the last update() returned
    render_queued,  \* the scheduler has a render to run before the next Msg
    username,       \* User.username of the context
    attempts,       \* history: every try_send, with its outcome
    history         \* history: every Msg handed to update()

vars == <<users, messages, chat_input, tx, dom, status, should_render, render_queued,
          username, attempts, history>>

AvatarPrefix == Str("https://avatars.dicebear.com/api/adventurer-neutral/")

AvatarSuffix == Str(".svg")

\* format!("https://avatars.dicebear.com/api/adventurer-neutral/{}.svg", u)
avatar(u) == AvatarPrefix \o u \o AvatarSuffix

\* Variant of rebuild: a name already seen is skipped.
rebuild_dedup(names) ==
    LET RECURSIVE Keep(_)
        Keep(i) == IF i > Len(names) THEN <<>>
                   ELSE (IF \E k \in 1..(i - 1) : names[k] = names[i]
                         THEN <<>>
                         ELSE <<UserProfile(names[i], avatar(names[i]))>>) \o Keep(i + 1)
    IN  Keep(1)

\* users_from_message.iter().map(|u| UserProfile { .. }).collect()
rebuild(names) == [i \in 1..Len(names) |-> UserProfile(names[i], avatar(names[i]))]

\* Option::unwrap_or_default on Option<Vec<String>>
unwrap_or_default(o) == IF IsSome(o) THEN o.v ELSE <<>>

\* Variant of register_message: the name goes into dataArray.
register_message_in_array(name) == WebSocketMessage("Register", Some(<<name>>), None)

\* The frame create() registers with.
register_message(name) == WebSocketMessage("Register", None, Some(name))

\* The frame update() builds from the input's value.
submit_message(value) == WebSocketMessage("Message", None, Some(value))

\* wss.tx.clone().try_send(text): the channel takes the text or reports an error.
try_send(text, ok) ==
    /\ tx' = IF ok THEN Append(tx, text) ELSE tx
    /\ attempts' = Append(attempts, [text |-> text, ok |-> ok])

\* An unwrap() on None or Err: the component stops where it is.
Panic(where) ==
    /\ status' = where
    /\ UNCHANGED <<users, messages, chat_input, tx, dom, should_render, render_queued,
                   attempts>>

\* Chat::create: registers, then starts with no users and no messages.
Init ==
    /\ username \in Usernames
    /\ \E ok \in BOOLEAN :
        LET text == to_string(register_message(username)) IN
        /\ tx = IF ok THEN <<text>> ELSE <<>>
        /\ attempts = <<[text |-> text, ok |-> ok]>>
    /\ users = <<>>
    /\ messages = <<>>
    /\ chat_input = <<>>
    /\ dom = None
    /\ status = "Ready"
    /\ should_render = FALSE
    /\ render_queued = TRUE
    /\ history = <<>>

\* Variant of HandleUsers: a frame without names is passed over.
HandleUsersIfSome(msg) ==
    /\ users' = IF IsSome(msg.data_array) THEN rebuild(msg.data_array.v) ELSE users
    /\ should_render' = IsSome(msg.data_array)
    /\ render_queued' = IsSome(msg.data_array)
    /\ status' = "Ready"
    /\ UNCHANGED <<messages, chat_input, tx, dom, attempts>>

\* Variant of HandleUsers: the new profiles are added to the old ones.
HandleUsersMerge(msg) ==
    /\ users' = users \o rebuild(unwrap_or_default(msg.data_array))
    /\ should_render' = TRUE
    /\ render_queued' = TRUE
    /\ status' = "Ready"
    /\ UNCHANGED <<messages, chat_input, tx, dom, attempts>>

\* MsgTypes::Users => ..
HandleUsers(msg) ==
    /\ users' = rebuild(unwrap_or_default(msg.data_array))
    /\ should_render' = TRUE
    /\ render_queued' = TRUE
    /\ status' = "Ready"
    /\ UNCHANGED <<messages, chat_input, tx, dom, attempts>>

\* Variant of PushMessage: an entry equal to the last one is not pushed again.
PushMessageDedup(message_data) ==
    IF ~message_data.ok THEN Panic("update")
    ELSE /\ messages' = IF messages # <<>> /\ messages[Len(messages)] = message_data.v
                        THEN messages
                        ELSE Append(messages, message_data.v)
         /\ should_render' = TRUE
         /\ render_queued' = TRUE
         /\ status' = "Ready"
         /\ UNCHANGED <<users, chat_input, tx, dom, attempts>>

\* let message_data: MessageData = (..).unwrap(); self.messages.push(message_data);
\* return true
PushMessage(message_data) ==
    IF ~message_data.ok THEN Panic("update")
    ELSE /\ messages' = Append(messages, message_data.v)
         /\ should_render' = TRUE
         /\ render_queued' = TRUE
         /\ status' = "Ready"
         /\ UNCHANGED <<users, chat_input, tx, dom, attempts>>

\* MsgTypes::Message => ..
HandleMessage(msg) ==
    IF ~IsSome(msg.data) THEN Panic("update")
    ELSE PushMessage(from_str_MessageData(msg.data.v))

\* Variant of HandleOther: a frame of another kind asks for a render too.
HandleOtherRenders(msg) ==
    /\ should_render' = TRUE
    /\ render_queued' = TRUE
    /\ status' = "Ready"
    /\ UNCHANGED <<users, messages, chat_input, tx, dom, attempts>>

\* Variant of HandleOther: a frame of another kind empties the users.
HandleOtherResets(msg) ==
    /\ users' = <<>>
    /\ should_render' = FALSE
    /\ status' = "Ready"
    /\ UNCHANGED <<messages, chat_input, tx, dom, render_queued, attempts>>

\* _ => return false
HandleOther(msg) ==
    /\ should_render' = FALSE
    /\ status' = "Ready"
    /\ UNCHANGED <<users, messages, chat_input, tx, dom, render_queued, attempts>>

\* let msg: WebSocketMessage = (..).unwrap(); match msg.message_type { .. }
MatchMessageType(msg) ==
    IF ~msg.ok THEN Panic("update")
    ELSE CASE msg.v.message_type = "Users"   -> HandleUsers(msg.v)
           [] msg.v.message_type = "Message" -> HandleMessage(msg.v)
           [] OTHER                          -> HandleOther(msg.v)

\* update(.., Msg::HandleMsg(s)).  The framework runs the render an update asked
\* for before it hands over the next Msg; a panic leaves the scheduler locked, so a
\* panicked component handles nothing more.
HandleMsg(s) ==
    /\ status = "Ready"
    /\ ~render_queued
    /\ Len(history) < MaxEvents
    /\ history' = Append(history, [msg |-> "HandleMsg", s |-> s])
    /\ UNCHANGED <<username>>
    /\ MatchMessageType(from_str_WebSocketMessage(s))

\* Variant of SubmitMessage: the input box is emptied only when the send went well.
SubmitMessageKeepOnError(ok) ==
    /\ status = "Ready"
    /\ ~render_queued
    /\ Len(history) < MaxEvents
    /\ history' = Append(history, [msg |-> "SubmitMessage", s |-> chat_input])
    /\ try_send(to_string(submit_message(chat_input)), ok)
    /\ chat_input' = IF ok THEN <<>> ELSE chat_input
    /\ should_render' = FALSE
    /\ status' = "Ready"
    /\ UNCHANGED <<users, messages, dom, render_queued, username>>

\* Variant of SubmitMessage: the result of try_send is unwrapped.
SubmitMessageUnwrap(ok) ==
    /\ status = "Ready"
    /\ ~render_queued
    /\ Len(history) < MaxEvents
    /\ history' = Append(history, [msg |-> "SubmitMessage", s |-> chat_input])
    /\ try_send(to_string(submit_message(chat_input)), ok)
    /\ status' = IF ok THEN "Ready" ELSE "update"
    /\ chat_input' = IF ok THEN <<>> ELSE chat_input
    /\ should_render' = FALSE
    /\ UNCHANGED <<users, messages, dom, render_queued, username>>

\* Variant of SubmitMessage: the message is shown at once.
SubmitMessageEcho(ok) ==
    /\ status = "Ready"
    /\ ~render_queued
    /\ Len(history) < MaxEvents
    /\ history' = Append(history, [msg |-> "SubmitMessage", s |-> chat_input])
    /\ try_send(to_string(submit_message(chat_input)), ok)
    /\ messages' = Append(messages, MessageData(username, chat_input))
    /\ chat_input' = <<>>
    /\ should_render' = TRUE
    /\ render_queued' = TRUE
    /\ UNCHANGED <<users, dom, status, username>>

\* update(.., Msg::SubmitMessage).  The button that sends it and the input element
\* are put on the page by the same view, so chat_input.cast() is Some(input) here.
SubmitMessage(ok) ==
    /\ status = "Ready"
    /\ ~render_queued
    /\ Len(history) < MaxEvents
    /\ history' = Append(history, [msg |-> "SubmitMessage", s |-> chat_input])
    /\ try_send(to_string(submit_message(chat_input)), ok)
    /\ chat_input' = <<>>
    /\ should_render' = FALSE
    /\ status' = "Ready"
    /\ UNCHANGED <<users, messages, dom, render_queued, username>>

\* The user edits the input box.
TypeInput(v) ==
    /\ status = "Ready"
    /\ ~render_queued
    /\ chat_input' = v
    /\ UNCHANGED <<users, messages, tx, dom, status, should_render, render_queued,
                   username, attempts, history>>

\* Variant of find: the first profile is taken, whatever its name.
find_first(us, from) ==
    IF us = <<>> THEN None ELSE Some(us[1])

\* self.users.iter().find(|u| u.name == m.from)
find(us, from) ==
    LET hits == {i \in 1..Len(us) : us[i].name = from} IN
    IF hits = {} THEN None
    ELSE Some(us[CHOOSE i \in hits : \A k \in hits : i <= k])

\* Variant of ends_with: letters are compared without regard to case.
ends_with_ignore_case(s, suffix) ==
    LET Lower(c) == IF c \in C("A")..C("Z") THEN c - C("A") + C("a") ELSE c
        tail == Slice(s, Len(s) - Len(suffix) + 1, Len(s))
    IN  /\ Len(s) >= Len(suffix)
        /\ \A i \in 1..Len(suffix) : Lower(Ch(tail, i)) = Ch(suffix, i)

\* str::ends_with
ends_with(s, suffix) ==
    Len(s) >= Len(suffix) /\ Slice(s, Len(s) - Len(suffix) + 1, Len(s)) = suffix

\* One card of the users column.
user_card(u) == [img |-> u.avatar, name |-> u.name]

GifSuffix == Str(".gif")

\* One card of the messages column, given the profile found for its sender.
message_card(user, m) ==
    [img  |-> user.avatar,
     from |-> m.from,
     body |-> IF ends_with(m.message, GifSuffix)
              THEN [tag |-> "img", src |-> m.message]
              ELSE [tag |-> "div", text |-> m.message]]

\* Chat::view panics when a sender is not among the users.
view_panics(us, ms) == \E i \in 1..Len(ms) : ~IsSome(find(us, ms[i].from))

\* The Html of Chat::view.
html(us, ms) ==
    [users    |-> [i \in 1..Len(us) |-> user_card(us[i])],
     messages |-> [i \in 1..Len(ms) |-> message_card(find(us, ms[i].from).v, ms[i])]]

\* Variant of View: the messages are taken out of the log as they are drawn.
ViewDrain ==
    /\ status = "Ready"
    /\ IF view_panics(users, messages)
       THEN /\ status' = "view"
            /\ UNCHANGED <<dom, render_queued, messages>>
       ELSE /\ dom' = Some(html(users, messages))
            /\ messages' = <<>>
            /\ render_queued' = FALSE
            /\ status' = "Ready"
    /\ UNCHANGED <<users, chat_input, tx, should_render, username,
                   attempts, history>>

\* Chat::view, and the framework putting its Html on the page.
View ==
    /\ status = "Ready"
    /\ IF view_panics(users, messages)
       THEN /\ status' = "view"
            /\ UNCHANGED <<dom, render_queued>>
       ELSE /\ dom' = Some(html(users, messages))
            /\ render_queued' = FALSE
            /\ status' = "Ready"
    /\ UNCHANGED <<users, messages, chat_input, tx, should_render, username,
                   attempts, history>>

Next ==
    \/ \E s \in InboundTexts : HandleMsg(s)
    \/ \E ok \in BOOLEAN : SubmitMessage(ok)
    \/ \E v \in Inputs : TypeInput(v)
    \/ View

Spec == Init /\ [][Next]_vars

(***************************************************************************)
(* Rendering one message: the panel has handled a users frame and a        *)
(* message frame, with more kinds of message text than Bodies has.         *)
(***************************************************************************)
\* Message texts around the ".gif" test of view.
RenderBodies ==
    {Str("party.gif"), Str("hello"), Str("party.GIF"), Str(".gif"), Str("gif"),
     Str("a.gif.txt"), <<>>}

\* The panel after create, a render, a users frame, a render and a message frame.
RenderInit ==
    /\ username \in Usernames
    /\ \E ok \in BOOLEAN :
        LET text == to_string(register_message(username)) IN
        /\ tx = IF ok THEN <<text>> ELSE <<>>
        /\ attempts = <<[text |-> text, ok |-> ok]>>
    /\ \E ns \in NameLists, n \in Names, b \in RenderBodies :
        /\ users = rebuild(ns)
        /\ messages = <<MessageData(n, b)>>
        /\ dom = Some(html(rebuild(ns), <<>>))
        /\ history =
             <<[msg |-> "HandleMsg",
                s   |-> to_string(WebSocketMessage("Users", Some(ns), None))],
               [msg |-> "HandleMsg",
                s   |-> to_string(WebSocketMessage("Message", None,
                                                   Some(EntryText(n, b))))]>>
    /\ chat_input = <<>>
    /\ status = "Ready"
    /\ should_render = TRUE
    /\ render_queued = TRUE

\* The render the message frame asked for.
RenderNext == View

SpecRender == RenderInit /\ [][RenderNext]_vars

(***************************************************************************)
(* What the history says                                                   *)
(***************************************************************************)
Last(q) == q[Len(q)]

\* The frame an entry of the history carried, when it was a text that reads as one.
IsFrame(e, mt) ==
    /\ e.msg = "HandleMsg"
    /\ LET frame == from_str_WebSocketMessage(e.s) IN
         frame.ok /\ frame.v.message_type = mt

\* The names of a users frame; none when dataArray is null or left out.
NamesOf(e) ==
    LET da == from_str_WebSocketMessage(e.s).v.data_array IN
    IF IsSome(da) THEN da.v ELSE <<>>

\* The names of the last users frame among the first i entries of h.
RECURSIVE LastUsersNames(_, _)
LastUsersNames(h, i) ==
    IF i = 0 THEN <<>>
    ELSE IF IsFrame(h[i], "Users") THEN NamesOf(h[i])
    ELSE LastUsersNames(h, i - 1)

\* A message frame whose payload reads as a chat entry.
IsEntryFrame(e) ==
    /\ e.msg = "HandleMsg"
    /\ LET frame == from_str_WebSocketMessage(e.s) IN
         /\ frame.ok
         /\ frame.v.message_type = "Message"
         /\ IsSome(frame.v.data)
         /\ from_str_MessageData(frame.v.data.v).ok

EntryOf(e) == from_str_MessageData(from_str_WebSocketMessage(e.s).v.data.v).v

\* The chat entries of the message frames of h from entry i on, in order.
RECURSIVE DeliveredEntries(_, _)
DeliveredEntries(h, i) ==
    IF i > Len(h) THEN <<>>
    ELSE (IF IsEntryFrame(h[i]) THEN <<EntryOf(h[i])>> ELSE <<>>)
         \o DeliveredEntries(h, i + 1)

\* A step in which update() handled Msg::SubmitMessage.
SubmitStep == Len(history') = Len(history) + 1 /\ Last(history').msg = "SubmitMessage"

NumSubmits(h) == Cardinality({i \in 1..Len(h) : h[i].msg = "SubmitMessage"})

\* The texts the channel accepted, according to the record of the sends.
RECURSIVE Accepted(_, _)
Accepted(a, i) ==
    IF i > Len(a) THEN <<>>
    ELSE (IF a[i].ok THEN <<a[i].text>> ELSE <<>>) \o Accepted(a, i + 1)

(***************************************************************************)
(* Properties                                                              *)
(***************************************************************************)

\* C1: the roster is always the rebuild of the names of the last users frame
\* delivered, and empty when none was delivered; earlier rosters leave no trace.
C1_RosterIsLastUsersFrame ==
    users = rebuild(LastUsersNames(history, Len(history)))

\* Two users frames with different names were delivered, the first with names.
C1_Witness ==
    /\ Len(history) >= 2
    /\ status = "Ready"
    /\ IsFrame(history[1], "Users") /\ NamesOf(history[1]) # <<>>
    /\ IsFrame(history[2], "Users") /\ NamesOf(history[2]) # NamesOf(history[1])
    /\ NamesOf(history[2]) # <<>>

\* C2: the log is the sequence of the chat entries of the well-formed message
\* frames delivered so far, in the order of delivery, one entry per frame.
C2_LogIsDeliveredEntries ==
    messages = DeliveredEntries(history, 1)

\* The same message frame was delivered twice and the log has both entries.
C2_Witness ==
    /\ Len(history) >= 3
    /\ IsFrame(history[1], "Users")
    /\ IsEntryFrame(history[2])
    /\ history[3] = history[2]
    /\ Len(messages) = 2
    /\ messages[1] = messages[2]
    /\ status = "Ready"

\* C3 as claimed: a submit with a non-empty input value t makes one try_send of a
\* message frame whose data is the chat entry {from: current user, message: t} in
\* its JSON form, and not the bare text t.
C3_SubmitSendsChatEntry ==
    [][(SubmitStep /\ chat_input # <<>>) =>
         /\ Len(attempts') = Len(attempts) + 1
         /\ Last(attempts').text
              # to_string(WebSocketMessage("Message", None, Some(chat_input)))
         /\ from_str_WebSocketMessage(Last(attempts').text).ok
         /\ from_str_WebSocketMessage(Last(attempts').text).v.message_type = "Message"
         /\ IsSome(from_str_WebSocketMessage(Last(attempts').text).v.data)
         /\ from_str_MessageData(from_str_WebSocketMessage(Last(attempts').text).v.data.v)
              = Ok(MessageData(username, chat_input))]_vars

\* C4 as claimed: a submit while the input is empty sends nothing and leaves the
\* log and the roster as they were.
C4_EmptySubmitIsNoOp ==
    [][(SubmitStep /\ chat_input = <<>>) =>
         /\ attempts' = attempts
         /\ tx' = tx
         /\ messages' = messages
         /\ users' = users]_vars

\* C5 as claimed: when the sender of some log entry has no profile in the roster,
\* rendering still does not fail.
C5_RenderDoesNotFail ==
    (\E i \in 1..Len(messages) : \A k \in 1..Len(users) : users[k].name # messages[i].from)
    => status # "view"

\* C6 as claimed: a text that does not read as a frame, or a message frame without
\* a readable chat entry, is dropped and the panel goes on.
C6_MalformedIsDropped ==
    (history # <<>> /\ Last(history).msg = "HandleMsg"
        /\ ~IsFrame(Last(history), "Users") /\ ~IsFrame(Last(history), "Register")
        /\ ~IsEntryFrame(Last(history)))
    => status # "update"

\* The text of the register frame for each user name: data is the name, dataArray
\* is null.
C7_RegisterFrame ==
    [n \in Usernames |-> to_string(WebSocketMessage("Register", None, Some(n)))]

\* The texts of the message frames for what can be in the input box.
C7_MessageFrames ==
    {to_string(WebSocketMessage("Message", None, Some(t))) : t \in Inputs \cup {<<>>}}

\* C7: the first send is the register frame with the user's name as data and no
\* dataArray; every later send is a message frame; the channel holds the accepted
\* sends in order; before the first Msg there are no users and no messages.
C7_RegisterOnceAndFirst ==
    /\ Len(attempts) >= 1
    /\ attempts[1].text = C7_RegisterFrame[username]
    /\ \A i \in 2..Len(attempts) : attempts[i].text \in C7_MessageFrames
    /\ C7_RegisterFrame[username] \notin C7_MessageFrames
    /\ tx = Accepted(attempts, 1)
    /\ (history = <<>> => users = <<>> /\ messages = <<>> /\ status = "Ready")

\* The register frame went out and a message frame after it.
C7_Witness ==
    /\ Len(tx) >= 2
    /\ tx[1] = C7_RegisterFrame[username]
    /\ tx[2] \in C7_MessageFrames

\* C8: a failed send leaves the panel ready and its roster, log and channel as they
\* were; every send belongs to create() or to one submit, one try each, so a failed
\* frame is not sent again.
C8_SendFailureIsSwallowed ==
    [][/\ (history = <<>> => status = "Ready")
       /\ Len(attempts') = 1 + NumSubmits(history')
       /\ SubSeq(attempts', 1, Len(attempts)) = attempts
       /\ (Len(attempts') > Len(attempts) /\ ~Last(attempts').ok) =>
            /\ status' = "Ready"
            /\ users' = users
            /\ messages' = messages
            /\ tx' = tx]_vars

\* The register frame and a submitted frame both failed, and a users frame
\* delivered afterwards was handled.
C8_Witness ==
    /\ ~attempts[1].ok
    /\ Len(attempts) = 2 /\ ~attempts[2].ok
    /\ tx = <<>>
    /\ Len(history) >= 2
    /\ history[1].msg = "SubmitMessage"
    /\ IsFrame(history[2], "Users")
    /\ users # <<>>
    /\ status = "Ready"

\* C9: a submit, whatever the input and the outcome of the send, leaves the log,
\* the roster and the page as they were and returns false.
C9_SubmitHasNoLocalEcho ==
    [][SubmitStep =>
         /\ messages' = messages
         /\ users' = users
         /\ should_render' = FALSE
         /\ render_queued' = render_queued
         /\ dom' = dom]_vars

\* A text was submitted and accepted, and the log does not show it.
C9_Witness ==
    /\ history # <<>>
    /\ Last(history).msg = "SubmitMessage"
    /\ Last(history).s = Str("\"q\"")
    /\ Last(attempts).ok
    /\ messages # <<>>
    /\ \A i \in 1..Len(messages) : messages[i].message # Str("\"q\"")
    /\ ~should_render

ClaimedAvatarHead == Str("https://avatars.dicebear.com/api/adventurer-neutral/")

ClaimedAvatarTail == Str(".svg")

\* The avatar address the panel is said to show for a name.
ClaimedAvatar(n) == ClaimedAvatarHead \o n \o ClaimedAvatarTail

\* C10: after a users frame the roster has one profile per name of the frame, in
\* the order of the names, each with the avatar address made from its name; a name
\* given k times has k profiles.
C10_RebuildKeepsOrderAndLength ==
    (history # <<>> /\ IsFrame(Last(history), "Users")) =>
        LET names == NamesOf(Last(history)) IN
        /\ Len(users) = Len(names)
        /\ \A i \in 1..Len(names) :
             /\ users[i].name = names[i]
             /\ users[i].avatar = ClaimedAvatar(names[i])
        /\ \A n \in Names :
             Cardinality({i \in 1..Len(users) : users[i].name = n})
               = Cardinality({i \in 1..Len(names) : names[i] = n})

\* A users frame with the same name twice was handled.
C10_Witness ==
    /\ history # <<>>
    /\ IsFrame(Last(history), "Users")
    /\ NamesOf(Last(history)) = <<Str("a"), Str("a")>>
    /\ Len(users) = 2
    /\ users[1] = users[2]

\* C11: a users frame followed by a message frame whose sender is one of its names
\* leaves a log of exactly that one entry; and every page rendered shows, for each
\* log entry in order, the sender and the avatar address made from the sender's
\* name, which is the avatar of the first profile of the roster with that name.
C11_CardShowsSendersAvatar ==
    /\ (Len(history) = 2 /\ IsFrame(history[1], "Users") /\ IsEntryFrame(history[2])
          /\ \E k \in 1..Len(NamesOf(history[1])) :
                 NamesOf(history[1])[k] = EntryOf(history[2]).from)
       => (messages = <<EntryOf(history[2])>> /\ status = "Ready")
    /\ (status = "Ready" /\ ~render_queued) =>
         /\ IsSome(dom)
         /\ Len(dom.v.messages) = Len(messages)
         /\ \A i \in 1..Len(messages) :
              /\ dom.v.messages[i].from = messages[i].from
              /\ dom.v.messages[i].img = ClaimedAvatar(messages[i].from)
              /\ \E k \in 1..Len(users) :
                   /\ users[k].name = messages[i].from
                   /\ \A j \in 1..(k - 1) : users[j].name # messages[i].from
                   /\ dom.v.messages[i].img = users[k].avatar

\* A message of the second of two users was delivered and rendered.
C11_Witness ==
    /\ Len(history) = 2
    /\ IsFrame(history[1], "Users") /\ NamesOf(history[1]) = <<Str("a"), Str("b")>>
    /\ IsEntryFrame(history[2]) /\ EntryOf(history[2]).from = Str("b")
    /\ status = "Ready" /\ ~render_queued
    /\ Len(dom.v.messages) = 1

\* A step in which update() handled Msg::HandleMsg.
HandleStep == Len(history') = Len(history) + 1 /\ Last(history').msg = "HandleMsg"

\* C12: handling an inbound text sends nothing and leaves the input box alone; a
\* users frame leaves the log as it was, a message frame leaves the roster as it
\* was, and a register frame leaves both as they were.
C12_InboundTouchesOwnContainer ==
    [][HandleStep =>
         /\ attempts' = attempts
         /\ tx' = tx
         /\ chat_input' = chat_input
         /\ (IsFrame(Last(history'), "Users") => messages' = messages)
         /\ (IsFrame(Last(history'), "Message") => users' = users)
         /\ (IsFrame(Last(history'), "Register") =>
               users' = users /\ messages' = messages)]_vars

\* With users and a message in place and a text typed, a register frame came in.
C12_Witness ==
    /\ Len(history) = 3
    /\ IsFrame(history[1], "Users")
    /\ IsEntryFrame(history[2])
    /\ IsFrame(history[3], "Register")
    /\ users # <<>> /\ messages # <<>> /\ chat_input # <<>>
    /\ status = "Ready"

\* C13: on a rendered page the body of a message is an image whose source is the
\* message text exactly when the text ends with the four characters ".gif", and the
\* text itself otherwise: "party.gif" is an image, "hello" and "party.GIF" are text.
C13_ImageIffGifSuffix ==
    (status = "Ready" /\ ~render_queued) =>
        \A i \in 1..Len(messages) :
            LET b    == messages[i].message
                body == dom.v.messages[i].body
            IN  /\ body.tag \in {"img", "div"}
                /\ body.tag = "img" <=>
                     (Len(b) >= 4 /\ SubSeq(b, Len(b) - 3, Len(b)) = Str(".gif"))
                /\ body.tag = "img" => body = [tag |-> "img", src |-> b]
                /\ body.tag = "div" => body = [tag |-> "div", text |-> b]
                /\ b = Str("party.gif") => body.tag = "img"
                /\ b \in {Str("hello"), Str("party.GIF")} => body.tag = "div"

\* A message "party.GIF" was rendered as text.
C13_Witness ==
    /\ status = "Ready" /\ ~render_queued
    /\ Len(messages) = 1
    /\ messages[1].message = Str("party.GIF")
    /\ dom.v.messages[1].body = [tag |-> "div", text |-> Str("party.GIF")]

RenderStep == history' = history /\ chat_input' = chat_input

ClaimedGif == Str(".gif")

\* The body of a message card as the panel is said to show it.
ClaimedBody(b) ==
    IF Len(b) >= 4 /\ SubSeq(b, Len(b) - 3, Len(b)) = ClaimedGif
    THEN [tag |-> "img", src |-> b]
    ELSE [tag |-> "div", text |-> b]

\* The first profile of a roster with the name n.
ClaimedProfile(us, n) ==
    us[CHOOSE k \in 1..Len(us) : us[k].name = n /\ \A j \in 1..(k - 1) : us[j].name # n]

\* The page the panel is said to show for a roster and a log: a card with avatar and
\* name for each profile, and for each entry a card with the avatar of the sender's
\* profile, the sender and the body, all in order.
ClaimedPage(us, ms) ==
    [users    |-> [i \in 1..Len(us) |-> [img |-> us[i].avatar, name |-> us[i].name]],
     messages |-> [i \in 1..Len(ms) |->
                      [img  |-> ClaimedProfile(us, ms[i].from).avatar,
                       from |-> ms[i].from,
                       body |-> ClaimedBody(ms[i].message)]]]

\* C15: a render leaves the roster, the log, the channel and the record of sends as
\* they were, and the page a render draws is the one page that belongs to the roster
\* and the log it read, whatever was drawn or handled before.
C15_RenderIsPureRead ==
    [][RenderStep =>
         /\ users' = users
         /\ messages' = messages
         /\ tx' = tx
         /\ attempts' = attempts
         /\ (status' = "Ready" => dom' = Some(ClaimedPage(users, messages)))]_vars

\* Two users, a message and the register frame in the channel: the page was drawn
\* and all of them are still there.
C15_Witness ==
    /\ status = "Ready" /\ ~render_queued
    /\ Len(users) = 2 /\ Len(messages) = 1 /\ tx # <<>>
    /\ Len(dom.v.users) = 2 /\ Len(dom.v.messages) = 1

\* C16: what update() returned last is true exactly when the last Msg was a users
\* frame, or a message frame with a readable chat entry; it is false after a
\* register frame and after every submit.
C16_RenderDecision ==
    (history # <<>> /\ status # "update") =>
        /\ should_render
             = (IsFrame(Last(history), "Users") \/ IsEntryFrame(Last(history)))
        /\ (IsFrame(Last(history), "Register") => ~should_render)
        /\ (Last(history).msg = "SubmitMessage" => ~should_render)

\* After a users frame and a submit, a register frame was handled and no render
\* was asked for.
C16_Witness ==
    /\ Len(history) = 3
    /\ IsFrame(history[1], "Users")
    /\ history[2].msg = "SubmitMessage"
    /\ IsFrame(history[3], "Register")
    /\ status = "Ready"
    /\ ~should_render

\* C17: a submit while the input box holds a text leaves the box empty, whether the
\* channel took the frame or not, and the panel ready.
C17_SubmitClearsInput ==
    [][(SubmitStep /\ chat_input # <<>>) =>
         /\ chat_input' = <<>>
         /\ status' = "Ready"]_vars

\* A text was submitted, the send failed, and the box is empty.
C17_Witness ==
    /\ history # <<>>
    /\ Last(history).msg = "SubmitMessage"
    /\ Last(history).s # <<>>
    /\ ~Last(attempts).ok
    /\ chat_input = <<>>
    /\ status = "Ready"

\* C18: a users frame whose dataArray is null or left out empties the roster,
\* leaves the log as it was, and asks for a render.
C18_UsersFrameWithoutNames ==
    [][(HandleStep /\ IsFrame(Last(history'), "Users")
          /\ ~IsSome(from_str_WebSocketMessage(Last(history').s).v.data_array)) =>
         /\ users' = <<>>
         /\ messages' = messages
         /\ should_render' = TRUE
         /\ render_queued' = TRUE
         /\ status' = "Ready"]_vars

\* After a users frame with names, a users frame with no dataArray key, and with a
\* key the struct has no field for, emptied the roster.
C18_Witness ==
    /\ Len(history) >= 2
    /\ IsFrame(history[1], "Users") /\ NamesOf(history[1]) # <<>>
    /\ Last(history).s = UsersWithMore
    /\ users = <<>>
    /\ should_render
    /\ status = "Ready"

====
